---- MODULE Spec2Model ----
(***************************************************************************)
(* Model of the document store of app/services/tinydb_wrapper_supabase.py: *)
(* PostgreSQLTable (one relation with a SERIAL doc_id and a JSONB data     *)
(* column), its predicate evaluator and its CRUD operations.               *)
(***************************************************************************)
EXTENDS Integers, Sequences, FiniteSets, TLC

(***************************************************************************)
(* Bounds of the model.                                                    *)
(***************************************************************************)
\* largest value the SERIAL sequence may hand out before inserts are disabled
MaxId == 2

(***************************************************************************)
(* Python / JSON values.  Scalars carry their payload as a sequence of     *)
(* integers: an int n is <<n>>, a str is the sequence of its code points.  *)
(***************************************************************************)
PyNone == [t |-> "none", a |-> <<>>]
PyInt(n) == [t |-> "int", a |-> <<n>>]
PyStr(s) == [t |-> "str", a |-> s]
PyList(items) == [t |-> "list", items |-> items]
PyTuple(items) == [t |-> "tuple", items |-> items]
PyDict(kv) == [t |-> "dict", kv |-> kv]

\* the empty dict {}
EmptyDoc == [x \in {} |-> PyNone]

\* dict.copy() followed by d[key] = value
SetKey(d, key, value) ==
  [x \in DOMAIN d \cup {key} |-> IF x = key THEN value ELSE d[x]]

\* faulty variant: a deep merge, nested dicts are merged key by key
DictUpdateDeep(d, fields) ==
  [x \in DOMAIN d \cup DOMAIN fields |->
     IF x \notin DOMAIN fields THEN d[x]
     ELSE IF x \in DOMAIN d /\ d[x].t = "dict" /\ fields[x].t = "dict"
          THEN [t |-> "dict",
                kv |-> [y \in DOMAIN d[x].kv \cup DOMAIN fields[x].kv |->
                          IF y \in DOMAIN fields[x].kv THEN fields[x].kv[y] ELSE d[x].kv[y]]]
          ELSE fields[x]]

\* dict.update(fields): top-level keys of fields overwrite those of d
DictUpdate(d, fields) ==
  [x \in DOMAIN d \cup DOMAIN fields |-> IF x \in DOMAIN fields THEN fields[x] ELSE d[x]]

\* psycopg2 Json(...) adapter, the JSONB column and json.loads on the way
\* back: a tuple is written as a JSON array and is read back as a list.
RECURSIVE JsonValue(_)
JsonValue(v) ==
  CASE v.t = "tuple" -> PyList([i \in DOMAIN v.items |-> JsonValue(v.items[i])])
    [] v.t = "list" -> PyList([i \in DOMAIN v.items |-> JsonValue(v.items[i])])
    [] v.t = "dict" -> PyDict([x \in DOMAIN v.kv |-> JsonValue(v.kv[x])])
    [] OTHER -> v

Json(doc) == [x \in DOMAIN doc |-> JsonValue(doc[x])]

(***************************************************************************)
(* Python semantics used by the predicate evaluator.  A test yields        *)
(* "true", "false" or "raise" (a TypeError propagating to the caller).     *)
(***************************************************************************)
Bool(b) == IF b THEN "true" ELSE "false"

\* ==: equal type and equal content; values of different types are unequal
PyEq(v, w) == v = w

Sign(n) == IF n < 0 THEN 0 - 1 ELSE IF n > 0 THEN 1 ELSE 0

\* lexicographic order of two sequences of code points: -1, 0 or 1
RECURSIVE SeqCmp(_, _)
SeqCmp(s, u) ==
  IF s = <<>> \/ u = <<>> THEN Sign(Len(s) - Len(u))
  ELSE IF Head(s) # Head(u) THEN Sign(Head(s) - Head(u))
  ELSE SeqCmp(Tail(s), Tail(u))

OpHolds(operator, c) ==
  CASE operator = "<" -> c < 0
    [] operator = "<=" -> c <= 0
    [] operator = ">" -> c > 0
    [] operator = ">=" -> c >= 0

\* v < w, v <= w, v > w, v >= w: defined for two ints, two strs and two
\* sequences of the same kind; any other pair of types is a TypeError
RECURSIVE PyCompare(_, _, _)
PyCompare(operator, v, w) ==
  CASE v.t = "int" /\ w.t = "int" -> Bool(OpHolds(operator, Sign(v.a[1] - w.a[1])))
    [] v.t = "str" /\ w.t = "str" -> Bool(OpHolds(operator, SeqCmp(v.a, w.a)))
    [] v.t = w.t /\ v.t \in {"list", "tuple"} ->
         LET n == IF Len(v.items) < Len(w.items) THEN Len(v.items) ELSE Len(w.items)
             diff == {i \in 1..n : v.items[i] # w.items[i]}
         IN IF diff = {} THEN Bool(OpHolds(operator, Sign(Len(v.items) - Len(w.items))))
            ELSE LET i == CHOOSE j \in diff : \A m \in diff : j <= m
                 IN PyCompare(operator, v.items[i], w.items[i])
    [] OTHER -> "raise"

\* str.lower() on ASCII code points
Lower(s) == [i \in DOMAIN s |-> IF s[i] >= 65 /\ s[i] <= 90 THEN s[i] + 32 ELSE s[i]]

\* sub in s for two strs
Contains(sub, s) ==
  \E i \in 0..(Len(s) - Len(sub)) : SubSeq(s, i + 1, i + Len(sub)) = sub

\* code points of the dict keys the model uses
KeyChars(key) ==
  CASE key = "k" -> <<107>>
    [] key = "other" -> <<111, 116, 104, 101, 114>>
    [] key = "p" -> <<112>>
    [] key = "q" -> <<113>>
    [] key = "doc_id" -> <<100, 111, 99, 95, 105, 100>>
    [] key = "_inserted_at" -> <<95, 105, 110, 115, 101, 114, 116, 101, 100, 95, 97, 116>>
    [] key = "_updated_at" -> <<95, 117, 112, 100, 97, 116, 101, 100, 95, 97, 116>>

\* decimal digits of a natural number
RECURSIVE Digits(_)
Digits(n) == IF n < 10 THEN <<48 + n>> ELSE Digits(n \div 10) \o <<48 + (n % 10)>>

\* a ", "-separated concatenation
RECURSIVE Join(_)
Join(parts) ==
  IF parts = <<>> THEN <<>>
  ELSE IF Len(parts) = 1 THEN parts[1]
  ELSE parts[1] \o <<44, 32>> \o Join(Tail(parts))

\* elements of a finite set of keys in some fixed order
RECURSIVE KeySeq(_)
KeySeq(S) == IF S = {} THEN <<>> ELSE LET x == CHOOSE y \in S : TRUE IN <<x>> \o KeySeq(S \ {x})

\* repr(v) and str(v): str differs from repr on a str only
RECURSIVE PyRepr(_)
PyRepr(v) ==
  CASE v.t = "none" -> <<78, 111, 110, 101>>
    [] v.t = "int" -> IF v.a[1] < 0 THEN <<45>> \o Digits(0 - v.a[1]) ELSE Digits(v.a[1])
    [] v.t = "str" -> <<39>> \o v.a \o <<39>>
    [] v.t = "list" -> <<91>> \o Join([i \in DOMAIN v.items |-> PyRepr(v.items[i])]) \o <<93>>
    [] v.t = "tuple" ->
         <<40>> \o Join([i \in DOMAIN v.items |-> PyRepr(v.items[i])])
                \o (IF Len(v.items) = 1 THEN <<44>> ELSE <<>>) \o <<41>>
    [] v.t = "dict" ->
         LET ks == KeySeq(DOMAIN v.kv)
         IN <<123>> \o Join([i \in DOMAIN ks |->
                <<39>> \o KeyChars(ks[i]) \o <<39, 58, 32>> \o PyRepr(v.kv[ks[i]])]) \o <<125>>

Str(v) == IF v.t = "str" THEN v.a ELSE PyRepr(v)

\* x in container
PyIn(x, container) ==
  CASE container.t \in {"list", "tuple"} ->
         Bool(\E i \in DOMAIN container.items : PyEq(container.items[i], x))
    [] container.t = "str" ->
         IF x.t = "str" THEN Bool(Contains(x.a, container.a)) ELSE "raise"
    [] container.t = "dict" ->
         IF x.t \in {"list", "dict"} THEN "raise"
         ELSE Bool(x.t = "str" /\ \E key \in DOMAIN container.kv : KeyChars(key) = x.a)
    [] OTHER -> "raise"

\* any(v in operand for v in items): stops at the first true
RECURSIVE AnyIn(_, _)
AnyIn(items, operand) ==
  IF items = <<>> THEN "false"
  ELSE LET r == PyIn(Head(items), operand)
       IN IF r = "false" THEN AnyIn(Tail(items), operand) ELSE r

\* all(v in operand for v in items): stops at the first false
RECURSIVE AllIn(_, _)
AllIn(items, operand) ==
  IF items = <<>> THEN "true"
  ELSE LET r == PyIn(Head(items), operand)
       IN IF r = "true" THEN AllIn(Tail(items), operand) ELSE r

(***************************************************************************)
(* Query, QueryCondition, CombinedCondition.                               *)
(***************************************************************************)
QueryCondition(path, operator, value) ==
  [cls |-> "QueryCondition", path |-> path, operator |-> operator, value |-> value]

CombinedCondition(left, operator, right) ==
  [cls |-> "CombinedCondition", left |-> left, operator |-> operator, right |-> right]

\* cond=None
NoCond == [cls |-> "None"]

Query_eq(path, other) == QueryCondition(path, "=", other)
Query_ne(path, other) == QueryCondition(path, "!=", other)
Query_lt(path, other) == QueryCondition(path, "<", other)
Query_le(path, other) == QueryCondition(path, "<=", other)
Query_gt(path, other) == QueryCondition(path, ">", other)
Query_ge(path, other) == QueryCondition(path, ">=", other)
Query_matches(path, regex) == QueryCondition(path, "LIKE", PyStr(<<37>> \o Str(regex) \o <<37>>))
Query_exists(path) == QueryCondition(path, "EXISTS", PyInt(1))
Query_one_of(path, items) == QueryCondition(path, "IN", items)
Query_any(path, items) == QueryCondition(path, "ANY", items)
Query_all(path, items) == QueryCondition(path, "ALL", items)

Invert(c) == QueryCondition(c.path, "!" \o c.operator, c.value)

(***************************************************************************)
(* The predicate evaluator.                                                *)
(***************************************************************************)
RECURSIVE extract_value(_, _)
RECURSIVE extract_value_last(_, _)
\* faulty variant: a path that cannot be followed gives the value it stopped at
extract_value_last(value, path) ==
  IF path = <<>> THEN value
  ELSE IF value.t = "dict" /\ Head(path) \in DOMAIN value.kv
       THEN extract_value_last(value.kv[Head(path)], Tail(path))
       ELSE value

\* _extract_value: None when a key is missing or the value is not a dict
extract_value(value, path) ==
  IF path = <<>> THEN value
  ELSE IF value.t = "dict" /\ Head(path) \in DOMAIN value.kv
       THEN extract_value(value.kv[Head(path)], Tail(path))
       ELSE PyNone

RECURSIVE matches_condition(_, _)
matches_condition(doc, condition) ==
  IF condition.cls = "QueryCondition" THEN
    LET value == extract_value(PyDict(doc), condition.path)
        operator == condition.operator
        seq == IF value.t \in {"list", "tuple"} THEN value.items ELSE <<value>>
    IN CASE operator = "=" -> Bool(PyEq(value, condition.value))
         [] operator = "!=" -> Bool(~PyEq(value, condition.value))
         [] operator \in {"<", "<=", ">", ">="} ->
              IF value = PyNone THEN "false" ELSE PyCompare(operator, value, condition.value)
         [] operator = "LIKE" ->
              Bool(value # PyNone /\ Contains(Lower(Str(condition.value)), Lower(Str(value))))
         [] operator = "EXISTS" -> Bool(value # PyNone)
         [] operator = "IN" ->
              IF condition.value.t \in {"list", "tuple"} THEN PyIn(value, condition.value)
              ELSE "false"
         [] operator = "ANY" -> AnyIn(seq, condition.value)
         [] operator = "ALL" -> AllIn(seq, condition.value)
         [] OTHER -> "false"
  ELSE IF condition.cls = "CombinedCondition" THEN
    LET left_match == matches_condition(doc, condition.left)
        right_match == matches_condition(doc, condition.right)
    IN IF left_match = "raise" \/ right_match = "raise" THEN "raise"
       ELSE CASE condition.operator = "AND" -> Bool(left_match = "true" /\ right_match = "true")
              [] condition.operator = "OR" -> Bool(left_match = "true" \/ right_match = "true")
              [] OTHER -> "false"
  ELSE "false"

(***************************************************************************)
(* Inputs of the operations.                                               *)
(***************************************************************************)
StrA == PyStr(<<97>>)
\* datetime.now().isoformat(): "2025-01-01T00:00:00"
Stamp ==
  PyStr(<<50, 48, 50, 53, 45, 48, 49, 45, 48, 49, 84, 48, 48, 58, 48, 48, 58, 48, 48>>)
Stamps == {Stamp}

Doc1 ==
  [x \in {"k", "other"} |->
     IF x = "k" THEN PyDict([y \in {"p"} |-> PyInt(1)]) ELSE PyTuple(<<PyInt(2)>>)]
Doc2 == [x \in {"k", "doc_id", "_inserted_at"} |-> IF x = "k" THEN PyInt(1) ELSE StrA]
Docs == {Doc1, Doc2}
DocLists == {<<>>, <<Doc1, Doc2>>}

Fields1 == [x \in {"k"} |-> PyInt(2)]
Fields2 == [x \in {"k"} |-> PyDict([y \in {"q"} |-> PyInt(1)])]
Fields3 == [x \in {"_updated_at"} |-> StrA]
Fields == {Fields1, Fields2, Fields3}

\* conditions by number; 0 is cond=None
Conds ==
  << Query_eq(<<"k">>, PyInt(1)),
     CombinedCondition(Query_eq(<<"k">>, PyInt(1)), "OR", Query_ne(<<"k">>, PyInt(1))),
     Query_lt(<<"k">>, PyInt(2)),
     Query_eq(<<"k", "p">>, PyInt(1)) >>
CondIds == 0..Len(Conds)
Cond(ci) == IF ci = 0 THEN NoCond ELSE Conds[ci]

\* doc_ids lists given to update and remove (doc_ids=None is has_ids = FALSE)
IdLists == {<<>>, <<1>>, <<3>>, <<2, 1>>, <<1, 1>>}

(***************************************************************************)
(* State: the relation of one PostgreSQLTable and the last call made.      *)
(***************************************************************************)
VARIABLES
  rows,   \* doc_id -> data, the rows of the relation
  seq,    \* the value the doc_id sequence hands out next
  op,     \* name of the last operation called
  arg,    \* its arguments
  ret,    \* its result
  issued, \* history: the ids assigned since the relation was last emptied by truncate
  ever,   \* history: the ids assigned since the relation was created
  faults, \* whether a statement sent to the backing store may fail
  mdoc,   \* the document handed to _matches_condition
  mcond,  \* the condition handed to it
  mres,   \* what it gave: "true", "false", "raise", or "none" before the call
  mprev,  \* what it gave for the condition that mcond is the negation of
  pc,     \* thread -> where it stands in the operation it is running
  kind,   \* thread -> the operation it is running
  held,   \* thread -> the number of connections it has borrowed from the pool
  hdl,    \* thread -> the PostgreSQLTable it calls into (the thread that made it), 0 for none
  lock,   \* PostgreSQLTable -> its _lock: the thread that owns it and how often it took it
  local,  \* thread -> the data its SELECT fetched, inside update()
  pending, \* thread -> the data its transaction wrote and has not committed
  pool,   \* TinyDB.connection_pool: its state, its open connections, its descriptor
  tables, \* TinyDB.tables: name -> the PostgreSQLTable made for it (the thread that made it)
  dflt,   \* TinyDB._default_table: the name of the table it holds, or "none"
  cur     \* the name under which the table the caller calls into was made

\* the threads that call into the tables
pvars == <<pc, kind, held, hdl, lock, local, pending>>

\* the TinyDB handle
lvars == <<pool, tables, dflt, cur>>

\* the evaluator on its own
evars == <<mdoc, mcond, mres, mprev>>

\* what the operations of a table leave alone
env == <<faults, evars, pvars, lvars>>

\* the state of the table
tvars == <<rows, seq, op, arg, ret, issued, ever>>

vars == <<rows, seq, op, arg, ret, issued, ever, env>>

NoArg ==
  [document |-> EmptyDoc, documents |-> <<>>, fields |-> EmptyDoc, cond |-> 0,
   has_ids |-> FALSE, doc_ids |-> <<>>, doc_id |-> <<>>, fail_at |-> 0,
   database_url |-> "none", DATABASE_URL |-> "none", name |-> "none",
   after |-> <<>>]

\* a result: raised, or one of the result shapes of the operations
NoRet == [raised |-> FALSE, id |-> 0, ids |-> <<>>, docs |-> <<>>, n |-> 0, b |-> FALSE]
Raised == [NoRet EXCEPT !.raised = TRUE]

\* ascending order of a finite set of integers (ORDER BY doc_id)
RECURSIVE Ascending(_)
Ascending(S) ==
  IF S = {} THEN <<>>
  ELSE LET m == CHOOSE x \in S : \A y \in S : x <= y IN <<m>> \o Ascending(S \ {m})

\* a row as all() and get() return it: the data with the key doc_id set
RowDoc(r, id) == SetKey(r[id], "doc_id", PyInt(id))

all_docs(r) ==
  LET ids == Ascending(DOMAIN r) IN [i \in DOMAIN ids |-> RowDoc(r, ids[i])]

\* the loop of search(): the documents of all_docs that match, in order
RECURSIVE search_loop(_, _)
search_loop(docs, cond) ==
  IF docs = <<>> THEN [NoRet EXCEPT !.docs = <<>>]
  ELSE LET m == matches_condition(Head(docs), cond)
           rest == search_loop(Tail(docs), cond)
       IN IF m = "raise" \/ rest.raised THEN Raised
          ELSE IF m = "true" THEN [rest EXCEPT !.docs = <<Head(docs)>> \o @]
          ELSE rest

\* faulty variant: the scan is returned without filtering
search_docs_unfiltered(r, cond) == [NoRet EXCEPT !.docs = all_docs(r)]

search_docs(r, cond) ==
  IF cond.cls = "None" THEN [NoRet EXCEPT !.docs = all_docs(r)]
  ELSE search_loop(all_docs(r), cond)

First(docs) == IF docs = <<>> THEN <<>> ELSE <<docs[1]>>

\* faulty variant: "if doc_id:" in place of "if doc_id is not None:"
get_doc_truthy(r, cond, doc_id) ==
  IF doc_id # <<>> /\ doc_id # <<0>> THEN
    [NoRet EXCEPT !.docs = IF doc_id[1] \in DOMAIN r THEN <<RowDoc(r, doc_id[1])>> ELSE <<>>]
  ELSE IF cond.cls = "None" THEN [NoRet EXCEPT !.docs = First(all_docs(r))]
  ELSE LET results == search_docs(r, cond)
       IN IF results.raised THEN Raised ELSE [NoRet EXCEPT !.docs = First(results.docs)]

\* get(cond, doc_id): doc_id is <<>> for None and <<i>> for the id i
get_doc(r, cond, doc_id) ==
  IF doc_id # <<>> THEN
    [NoRet EXCEPT !.docs = IF doc_id[1] \in DOMAIN r THEN <<RowDoc(r, doc_id[1])>> ELSE <<>>]
  ELSE IF cond.cls = "None" THEN [NoRet EXCEPT !.docs = First(all_docs(r))]
  ELSE LET results == search_docs(r, cond)
       IN IF results.raised THEN Raised ELSE [NoRet EXCEPT !.docs = First(results.docs)]

DocIds(docs) == [i \in DOMAIN docs |-> docs[i]["doc_id"].a[1]]

\* faulty variant: the condition is looked at before the id list
target_doc_ids_cond_first(r, cond, has_ids, doc_ids) ==
  IF cond.cls # "None" THEN
    LET matching_docs == search_docs(r, cond)
    IN IF matching_docs.raised THEN Raised ELSE [NoRet EXCEPT !.ids = DocIds(matching_docs.docs)]
  ELSE IF has_ids THEN [NoRet EXCEPT !.ids = doc_ids]
  ELSE [NoRet EXCEPT !.ids = DocIds(all_docs(r))]

\* "Determine which documents to update / remove"
target_doc_ids(r, cond, has_ids, doc_ids) ==
  IF has_ids THEN [NoRet EXCEPT !.ids = doc_ids]
  ELSE IF cond.cls # "None" THEN
    LET matching_docs == search_docs(r, cond)
    IN IF matching_docs.raised THEN Raised ELSE [NoRet EXCEPT !.ids = DocIds(matching_docs.docs)]
  ELSE [NoRet EXCEPT !.ids = DocIds(all_docs(r))]

\* the loop of update(): relation and updated_ids after the targets
RECURSIVE update_loop(_, _, _, _)
update_loop(r, targets, fields, stamps) ==
  IF targets = <<>> THEN [r |-> r, updated_ids |-> <<>>]
  ELSE LET doc_id == Head(targets)
       IN IF doc_id \in DOMAIN r
          THEN LET current_doc == SetKey(DictUpdate(r[doc_id], fields), "_updated_at", Head(stamps))
                   rest == update_loop([r EXCEPT ![doc_id] = Json(current_doc)],
                                       Tail(targets), fields, Tail(stamps))
               IN [rest EXCEPT !.updated_ids = <<doc_id>> \o @]
          ELSE update_loop(r, Tail(targets), fields, Tail(stamps))

Range(s) == {s[i] : i \in DOMAIN s}

\* faulty variant: the document is stored without the marker
doc_without_meta(document, now) == Json(document)

\* the data stored by insert: the copy with the marker, through the Json adapter
doc_with_meta(document, now) == Json(SetKey(document, "_inserted_at", now))

\* faulty variant: the sequence does not advance
nextval_stuck(s) == s

\* the SERIAL default: the sequence hands out its value and advances by one
nextval(s) == s + 1

\* INSERT ... RETURNING doc_id
InsertRow(r, id, data) == [x \in DOMAIN r \cup {id} |-> IF x = id THEN data ELSE r[x]]

\* the loop of insert_multiple(): relation, sequence and doc_ids after the documents
RECURSIVE insert_loop(_, _, _, _)
insert_loop(r, s, documents, stamps) ==
  IF documents = <<>> THEN [r |-> r, s |-> s, doc_ids |-> <<>>]
  ELSE LET rest == insert_loop(InsertRow(r, s, doc_with_meta(Head(documents), Head(stamps))),
                               nextval(s), Tail(documents), Tail(stamps))
       IN [rest EXCEPT !.doc_ids = <<s>> \o @]

\* faulty variant: the largest doc_id is taken for the number of rows
count_rows_max(r) == IF DOMAIN r = {} THEN 0 ELSE CHOOSE x \in DOMAIN r : \A y \in DOMAIN r : y <= x

\* SELECT COUNT(*)
count_rows(r) == Cardinality(DOMAIN r)

\* first value of the sequence behind doc_id SERIAL
StartId == 1

\* faulty variant: DELETE without the WHERE clause
DeleteAllRows(r, targets) == [x \in {} |-> r[x]]

\* DELETE FROM ... WHERE doc_id IN (targets)
DeleteRows(r, targets) == [x \in DOMAIN r \ Range(targets) |-> r[x]]

\* the list remove() returns for the targets it was given
removed_ids(r, targets) == targets

(***************************************************************************)
(* Operations of PostgreSQLTable.                                          *)
(***************************************************************************)
\* no condition is being evaluated outside a call
NoEval ==
  /\ mdoc = EmptyDoc
  /\ mcond = NoCond
  /\ mres = "none"
  /\ mprev = "none"

\* minconn of SimpleConnectionPool(1, 20, ...): the connections the pool
\* opens when it is constructed and keeps when they are returned
minconn == 1

\* no TinyDB has been constructed
NoPool == [state |-> "none", conns |-> 0, dsn |-> "none"]

\* the pool of a TinyDB constructed on the descriptor dsn
OpenPool(dsn) == [state |-> "open", conns |-> minconn, dsn |-> dsn]

\* the name of the table whose relation is rows
TableName == "t"

\* the relation behind a table: its name is put into the statements
\* unquoted, and PostgreSQL folds an unquoted identifier to lower case
Relation(name) == CASE name = "T" -> "t" [] OTHER -> name

\* the registry of a new TinyDB
NoTables == [name \in {} |-> 0]

\* self.tables[name] = the PostgreSQLTable made by thread t
Register(reg, name, t) == [n \in DOMAIN reg \cup {name} |-> IF n = name THEN t ELSE reg[n]]

\* a TinyDB is open and holds the table, which the caller has in hand
OneTable ==
  /\ pool = OpenPool("good")
  /\ tables = Register(NoTables, TableName, 0)
  /\ dflt = "none"
  /\ cur = TableName

\* the table called into is one whose relation is rows
OnRelation == cur \in DOMAIN tables /\ Relation(cur) = TableName

\* faulty variant: a closed pool opens a connection again
getconn_reopen(p) == "conn"

\* pool.getconn(): a connection, or PoolError once the pool is closed
getconn(p) == IF p.state = "closed" THEN "PoolError" ELSE "conn"

\* an operation whose _get_connection() raises: nothing is read or written
get_connection_raises(name, a) ==
  /\ op' = name
  /\ arg' = a
  /\ ret' = Raised
  /\ UNCHANGED <<rows, seq, issued, ever>>

\* threading.RLock(): no owner
Unlocked == [owner |-> 0, count |-> 0]

\* faulty variant: a lock that is not re-entrant
CanAcquire_Lock(l, t) == l.count = 0

\* whether acquire() by thread t returns: the lock is free, or t owns it
CanAcquire(l, t) == l.count = 0 \/ l.owner = t

\* faulty variant: acquire() returns and the lock is as it was
Acquire_not(l, t) == l

\* the lock once thread t has acquired it
Acquire(l, t) == [owner |-> t, count |-> l.count + 1]

\* the lock once its owner has released it
Release(l) == IF l.count = 1 THEN Unlocked ELSE [l EXCEPT !.count = @ - 1]

\* number of threads that call into the tables
NThreads == 3

Threads == 1..NThreads

\* no thread is inside an operation
NoThreads ==
  /\ pc = [t \in Threads |-> "idle"]
  /\ kind = [t \in Threads |-> "none"]
  /\ held = [t \in Threads |-> 0]
  /\ hdl = [t \in Threads |-> 0]
  /\ lock = [i \in Threads |-> Unlocked]
  /\ local = [t \in Threads |-> EmptyDoc]
  /\ pending = [t \in Threads |-> EmptyDoc]

Init ==
  /\ rows = EmptyDoc
  /\ seq = StartId
  /\ op = "init"
  /\ arg = NoArg
  /\ ret = NoRet
  /\ issued = {}
  /\ ever = {}
  /\ faults = FALSE
  /\ NoEval
  /\ NoThreads
  /\ OneTable

\* the caller's dict after the call: doc_with_meta = document.copy() is a
\* new dict, and the stamp is set on that one
caller_document(document, with_meta) == document

insert(document) ==
  /\ UNCHANGED env
  /\ OnRelation
  /\ IF getconn(pool) = "PoolError"
     THEN get_connection_raises("insert", [NoArg EXCEPT !.document = document,
                                                       !.after = <<document>>])
     ELSE /\ seq <= MaxId
          /\ \E now \in Stamps :
               /\ rows' = InsertRow(rows, seq, doc_with_meta(document, now))
               /\ arg' = [NoArg EXCEPT
                            !.document = document,
                            !.after = <<caller_document(document, SetKey(document, "_inserted_at", now))>>]
          /\ seq' = nextval(seq)
          /\ op' = "insert"
          /\ ret' = [NoRet EXCEPT !.id = seq]
          /\ issued' = issued \cup {seq}
          /\ ever' = ever \cup {seq}

\* faulty variant: every statement is committed as it is executed
return_connection_autocommit(committed, tx) == tx

\* the relation once the connection is back in the pool: the transaction that
\* was not committed is rolled back by putconn (or ends with the connection)
return_connection(committed, tx) == committed

\* the statement of a loop that fails: 0 for none
FailPoints(n) == IF faults THEN 0..n ELSE {0}

insert_multiple(documents) ==
  /\ UNCHANGED env
  /\ OnRelation
  /\ IF documents = <<>>
     THEN \* "if not documents: return []", before any connection is asked for
          /\ op' = "insert_multiple"
          /\ arg' = [NoArg EXCEPT !.documents = documents, !.after = documents]
          /\ ret' = NoRet
          /\ UNCHANGED <<rows, seq, issued, ever>>
     ELSE IF getconn(pool) = "PoolError"
     THEN get_connection_raises("insert_multiple", [NoArg EXCEPT !.documents = documents,
                                                                !.after = documents])
     ELSE \E stamps \in [1..Len(documents) -> Stamps], fail_at \in FailPoints(Len(documents)) :
            /\ op' = "insert_multiple"
            /\ arg' = [NoArg EXCEPT
                         !.documents = documents,
                         !.fail_at = fail_at,
                         !.after = [i \in 1..Len(documents) |->
                                      IF fail_at = 0 \/ i <= fail_at
                                      THEN caller_document(documents[i],
                                                           SetKey(documents[i], "_inserted_at", stamps[i]))
                                      ELSE documents[i]]]
            /\ IF fail_at = 0
               THEN /\ seq + Len(documents) - 1 <= MaxId
                    /\ LET res == insert_loop(rows, seq, documents, stamps)
                       IN /\ rows' = res.r
                          /\ seq' = res.s
                          /\ ret' = [NoRet EXCEPT !.ids = res.doc_ids]
                          /\ issued' = issued \cup Range(res.doc_ids)
                          /\ ever' = ever \cup Range(res.doc_ids)
               ELSE \* the INSERT of documents[fail_at] raises: no commit, finally
                    \* returns the connection; the sequence keeps what it handed out
                    LET tx == insert_loop(rows, seq, SubSeq(documents, 1, fail_at - 1), stamps)
                    IN /\ seq + fail_at - 1 <= MaxId
                       /\ rows' = return_connection(rows, tx.r)
                       /\ seq' \in {tx.s, nextval(tx.s)}
                       /\ ret' = Raised
                       /\ UNCHANGED <<issued, ever>>

all ==
  /\ UNCHANGED env
  /\ OnRelation
  /\ IF getconn(pool) = "PoolError"
     THEN get_connection_raises("all", NoArg)
     ELSE /\ op' = "all"
          /\ arg' = NoArg
          /\ ret' = [NoRet EXCEPT !.docs = all_docs(rows)]
          /\ UNCHANGED <<rows, seq, issued, ever>>

get(ci, doc_id) ==
  /\ UNCHANGED env
  /\ OnRelation
  /\ IF getconn(pool) = "PoolError"
     THEN get_connection_raises("get", [NoArg EXCEPT !.cond = ci, !.doc_id = doc_id])
     ELSE /\ op' = "get"
          /\ arg' = [NoArg EXCEPT !.cond = ci, !.doc_id = doc_id]
          /\ ret' = get_doc(rows, Cond(ci), doc_id)
          /\ UNCHANGED <<rows, seq, issued, ever>>

search(ci) ==
  /\ UNCHANGED env
  /\ OnRelation
  /\ IF getconn(pool) = "PoolError"
     THEN get_connection_raises("search", [NoArg EXCEPT !.cond = ci])
     ELSE /\ op' = "search"
          /\ arg' = [NoArg EXCEPT !.cond = ci]
          /\ ret' = search_docs(rows, Cond(ci))
          /\ UNCHANGED <<rows, seq, issued, ever>>

update(fields, ci, has_ids, doc_ids) ==
  /\ UNCHANGED env
  /\ OnRelation
  /\ op' = "update"
  /\ LET targets == target_doc_ids(rows, Cond(ci), has_ids, doc_ids)
         a == [NoArg EXCEPT !.fields = fields, !.cond = ci, !.has_ids = has_ids, !.doc_ids = doc_ids]
     IN IF getconn(pool) = "PoolError"
        THEN /\ arg' = a
             /\ ret' = Raised
             /\ rows' = rows
        ELSE IF targets.raised
        THEN /\ arg' = a
             /\ ret' = Raised
             /\ rows' = rows
        ELSE \E stamps \in [1..Len(targets.ids) -> Stamps], fail_at \in FailPoints(Len(targets.ids)) :
               /\ arg' = [a EXCEPT !.fail_at = fail_at]
               /\ IF fail_at = 0
                  THEN LET res == update_loop(rows, targets.ids, fields, stamps)
                       IN /\ rows' = res.r
                          /\ ret' = [NoRet EXCEPT !.ids = res.updated_ids]
                  ELSE \* a statement for targets.ids[fail_at] raises: no commit,
                       \* finally returns the connection
                       LET tx == update_loop(rows, SubSeq(targets.ids, 1, fail_at - 1), fields, stamps)
                       IN /\ rows' = return_connection(rows, tx.r)
                          /\ ret' = Raised
  /\ UNCHANGED <<seq, issued, ever>>

remove(ci, has_ids, doc_ids) ==
  /\ UNCHANGED env
  /\ OnRelation
  /\ IF getconn(pool) = "PoolError"
     THEN get_connection_raises("remove", [NoArg EXCEPT !.cond = ci, !.has_ids = has_ids, !.doc_ids = doc_ids])
     ELSE /\ op' = "remove"
          /\ arg' = [NoArg EXCEPT !.cond = ci, !.has_ids = has_ids, !.doc_ids = doc_ids]
          /\ LET targets == target_doc_ids(rows, Cond(ci), has_ids, doc_ids)
             IN IF targets.raised
                THEN /\ ret' = Raised
                     /\ rows' = rows
                ELSE IF targets.ids # <<>>
                THEN /\ rows' = DeleteRows(rows, targets.ids)
                     /\ ret' = [NoRet EXCEPT !.ids = removed_ids(rows, targets.ids)]
                ELSE /\ rows' = rows
                     /\ ret' = NoRet
          /\ UNCHANGED <<seq, issued, ever>>

\* faulty variant: TRUNCATE TABLE without RESTART IDENTITY
truncate_continue ==
  /\ UNCHANGED env
  /\ OnRelation
  /\ op' = "truncate"
  /\ arg' = NoArg
  /\ ret' = NoRet
  /\ rows' = EmptyDoc
  /\ issued' = {}
  /\ UNCHANGED <<seq, ever>>

\* TRUNCATE TABLE ... RESTART IDENTITY
truncate ==
  /\ UNCHANGED env
  /\ OnRelation
  /\ IF getconn(pool) = "PoolError"
     THEN get_connection_raises("truncate", NoArg)
     ELSE /\ op' = "truncate"
          /\ arg' = NoArg
          /\ ret' = NoRet
          /\ rows' = EmptyDoc
          /\ seq' = StartId
          /\ issued' = {}
          /\ UNCHANGED ever

count(ci) ==
  /\ UNCHANGED env
  /\ OnRelation
  /\ IF getconn(pool) = "PoolError"
     THEN get_connection_raises("count", [NoArg EXCEPT !.cond = ci])
     ELSE /\ op' = "count"
          /\ arg' = [NoArg EXCEPT !.cond = ci]
          /\ ret' = IF ci = 0 THEN [NoRet EXCEPT !.n = count_rows(rows)]
                    ELSE LET results == search_docs(rows, Cond(ci))
                         IN IF results.raised THEN Raised ELSE [NoRet EXCEPT !.n = Len(results.docs)]
          /\ UNCHANGED <<rows, seq, issued, ever>>

contains(ci) ==
  /\ UNCHANGED env
  /\ OnRelation
  /\ IF getconn(pool) = "PoolError"
     THEN get_connection_raises("contains", [NoArg EXCEPT !.cond = ci])
     ELSE /\ op' = "contains"
          /\ arg' = [NoArg EXCEPT !.cond = ci]
          /\ ret' = LET results == search_docs(rows, Cond(ci))
                    IN IF results.raised THEN Raised ELSE [NoRet EXCEPT !.b = Len(results.docs) > 0]
          /\ UNCHANGED <<rows, seq, issued, ever>>

\* doc_id arguments of get: None, or an int
DocIdArgs == {<<>>} \cup {<<i>> : i \in 0..MaxId}

Next ==
  \/ \E document \in Docs : insert(document)
  \/ \E documents \in DocLists : insert_multiple(documents)
  \/ all
  \/ \E ci \in CondIds : get(ci, <<>>)
  \/ \E ci \in {0, 3}, doc_id \in DocIdArgs \ {<<>>} : get(ci, doc_id)
  \/ \E ci \in CondIds : search(ci)
  \/ \E fields \in Fields : update(fields, 0, FALSE, <<>>)
  \/ \E ci \in CondIds \ {0} : update(Fields1, ci, FALSE, <<>>)
  \/ \E fields \in Fields, doc_ids \in IdLists : update(fields, 0, TRUE, doc_ids)
  \/ \E doc_ids \in IdLists : update(Fields1, 3, TRUE, doc_ids)
  \/ \E ci \in CondIds : remove(ci, FALSE, <<>>)
  \/ \E ci \in {0, 3}, doc_ids \in IdLists : remove(ci, TRUE, doc_ids)
  \/ truncate
  \/ \E ci \in CondIds : count(ci)
  \/ \E ci \in CondIds : contains(ci)

Spec == Init /\ [][Next]_vars

(***************************************************************************)
(* Properties.                                                             *)
(***************************************************************************)
\* a document of JSON values: maps, lists and scalars, no tuple
RECURSIVE IsJsonValue(_)
IsJsonValue(v) ==
  CASE v.t = "tuple" -> FALSE
    [] v.t = "list" -> \A i \in DOMAIN v.items : IsJsonValue(v.items[i])
    [] v.t = "dict" -> \A x \in DOMAIN v.kv : IsJsonValue(v.kv[x])
    [] OTHER -> TRUE

\* what get(doc_id = id) returns in the current state
GetById(id) == get_doc(rows, NoCond, <<id>>).docs

\* C1 as stated: after insert(d) of any document d, get(doc_id = the returned
\* id) returns a document holding every key of d with the value it has in d,
\* the keys doc_id and _inserted_at of d included (values that are not JSON
\* values, which no document of the claim has, are left out of the comparison).
C1_RoundTripAllKeys ==
  op = "insert" =>
    /\ Len(GetById(ret.id)) = 1
    /\ \A key \in DOMAIN arg.document :
         IsJsonValue(arg.document[key]) => GetById(ret.id)[1][key] = arg.document[key]

\* C1 amended: after insert(d), in any table state, get(doc_id = the returned
\* id) returns exactly the keys of d plus doc_id and _inserted_at; every key
\* of d other than these two that holds a JSON value has the value it has in
\* d, doc_id is the assigned id and _inserted_at is the marker.
C1_RoundTrip ==
  op = "insert" =>
    /\ Len(GetById(ret.id)) = 1
    /\ LET got == GetById(ret.id)[1]
       IN /\ DOMAIN got = DOMAIN arg.document \cup {"doc_id", "_inserted_at"}
          /\ \A key \in DOMAIN arg.document \ {"doc_id", "_inserted_at"} :
               IsJsonValue(arg.document[key]) => got[key] = arg.document[key]
          /\ got["doc_id"] = PyInt(ret.id)
          /\ got["_inserted_at"] \in Stamps

\* C1 witness: a document with its own doc_id and _inserted_at keys was
\* inserted into a table that already held a record, and get returns the
\* assigned id under doc_id
C1_Witness ==
  /\ op = "insert"
  /\ arg.document = Doc2
  /\ Cardinality(DOMAIN rows) = 2
  /\ GetById(ret.id)[1]["k"] = Doc2["k"]
  /\ GetById(ret.id)[1]["doc_id"] # Doc2["doc_id"]

\* C2 as stated: whatever operations came before, truncate included, an id
\* returned by insert is strictly greater than every id assigned before in the
\* table.
C2_NeverReused ==
  [][op' = "insert" => \A i \in ever : ret'.id > i]_vars

\* C2 amended: an id returned by insert or insert_multiple is strictly
\* greater than every id assigned in the table since it was last truncated
\* (or created), so between two truncates no id is assigned twice; update,
\* remove and truncate assign no id; every stored id was assigned by an insert.
C2_MonotonicSinceTruncate ==
  [][/\ op' = "insert" =>
          /\ \A i \in issued : ret'.id > i
          /\ ret'.id \notin DOMAIN rows
          /\ DOMAIN rows' = DOMAIN rows \cup {ret'.id}
     /\ op' = "insert_multiple" =>
          /\ \A j \in DOMAIN ret'.ids : \A i \in issued : ret'.ids[j] > i
          /\ \A j, m \in DOMAIN ret'.ids : j < m => ret'.ids[j] < ret'.ids[m]
          /\ DOMAIN rows' = DOMAIN rows \cup Range(ret'.ids)
     /\ op' \notin {"insert", "insert_multiple"} => DOMAIN rows' \subseteq DOMAIN rows
     /\ DOMAIN rows \subseteq issued]_vars

\* C2 witness: after the record with id 1 was removed, an insert returned 2
C2_Witness ==
  /\ op = "insert"
  /\ ret.id = 2
  /\ DOMAIN rows = {2}

\* the ids of the stored records that an evaluation of cond matches, and
\* whether the evaluation raises on some stored record
Matching(cond) ==
  {id \in DOMAIN rows : cond.cls = "None" \/ matches_condition(RowDoc(rows, id), cond) = "true"}

RaisesOnSome(cond) ==
  \E id \in DOMAIN rows : matches_condition(RowDoc(rows, id), cond) = "raise"

\* C3: search(c) returns exactly the records of all() that the evaluator
\* accepts for c, in ascending order of id, and all() itself when c is None or
\* accepts every record; on an empty table it returns []; it raises exactly
\* when the evaluator raises on a record.
C3_SearchCorrect ==
  op = "search" =>
    LET cond == Cond(arg.cond)
        scan == all_docs(rows)
    IN IF RaisesOnSome(cond) THEN ret.raised
       ELSE /\ ~ret.raised
            /\ \A i \in DOMAIN scan :
                 (\E j \in DOMAIN ret.docs : ret.docs[j] = scan[i])
                   <=> (scan[i]["doc_id"].a[1] \in Matching(cond))
            /\ \A j \in DOMAIN ret.docs : \E i \in DOMAIN scan : ret.docs[j] = scan[i]
            /\ \A i, j \in DOMAIN ret.docs :
                 i < j => ret.docs[i]["doc_id"].a[1] < ret.docs[j]["doc_id"].a[1]
            /\ Matching(cond) = DOMAIN rows => ret.docs = scan
            /\ rows = EmptyDoc => ret.docs = <<>>

\* C3 witness: a search over two records returned the second one only
C3_Witness ==
  /\ op = "search"
  /\ arg.cond # 0
  /\ Cardinality(DOMAIN rows) = 2
  /\ Len(ret.docs) = 1
  /\ ret.docs[1]["doc_id"] = PyInt(2)

\* C4 as stated: after update(fields, ...) every key of fields holds the new
\* value in every updated record.
C4_EveryFieldHoldsNewValue ==
  [][(op' = "update" /\ ~ret'.raised) =>
       \A id \in Range(ret'.ids) : \A key \in DOMAIN arg'.fields :
         rows'[id][key] = arg'.fields[key]]_vars

\* C4 amended: update is a shallow top-level merge: in every updated record
\* each key of fields other than _updated_at holds the new value (a nested map
\* is replaced as a whole), the key _updated_at holds the stamp of the update
\* even when fields has a value for it, every other key keeps its value, the
\* record keeps its id, and the records that were not updated are unchanged.
C4_ShallowMerge ==
  [][(op' = "update" /\ ~ret'.raised) =>
       /\ DOMAIN rows' = DOMAIN rows
       /\ \A id \in DOMAIN rows :
            IF id \in Range(ret'.ids)
            THEN /\ DOMAIN rows'[id] = DOMAIN rows[id] \cup DOMAIN arg'.fields \cup {"_updated_at"}
                 /\ rows'[id]["_updated_at"] \in Stamps
                 /\ \A key \in DOMAIN rows'[id] \ {"_updated_at"} :
                      rows'[id][key] =
                        IF key \in DOMAIN arg'.fields THEN arg'.fields[key] ELSE rows[id][key]
            ELSE rows'[id] = rows[id]]_vars

\* C4 witness: one of two records had its nested map k replaced by the map
\* of fields, the other record was not updated
C4_Witness ==
  /\ op = "update"
  /\ arg.fields = Fields2
  /\ ret.ids = <<1>>
  /\ DOMAIN rows = {1, 2}
  /\ rows[1]["k"] = Fields2["k"]
  /\ rows[1]["other"] = JsonValue(Doc1["other"])
  /\ "_updated_at" \notin DOMAIN rows[2]

\* C5: after remove(doc_ids=[i]) of a stored id i, get(doc_id=i) is None,
\* count() is one less than before and every other record is stored unchanged.
C5_RemoveOne ==
  [][(op' = "remove" /\ arg'.has_ids /\ Len(arg'.doc_ids) = 1
        /\ arg'.doc_ids[1] \in DOMAIN rows) =>
       /\ get_doc(rows', NoCond, arg'.doc_ids).docs = <<>>
       /\ count_rows(rows') = count_rows(rows) - 1
       /\ \A id \in DOMAIN rows \ {arg'.doc_ids[1]} : id \in DOMAIN rows' /\ rows'[id] = rows[id]]_vars

\* C5 witness: the record with id 1 was removed and the record with id 2 remains
C5_Witness ==
  /\ op = "remove"
  /\ arg.has_ids
  /\ arg.doc_ids = <<1>>
  /\ DOMAIN rows = {2}

\* C6: after truncate() all() is [] and count() is 0, whatever the table
\* held; a truncate() that follows a truncate() changes nothing; and the first
\* insert after a truncate returns the starting id, the id the first insert
\* into a new table returns.
C6_Truncate ==
  [][/\ op' = "truncate" => (all_docs(rows') = <<>> /\ count_rows(rows') = 0)
     /\ (op = "truncate" /\ op' = "truncate") => (rows' = rows /\ seq' = seq)
     /\ (op' = "insert" /\ issued = {}) => ret'.id = StartId
     /\ (op' = "insert_multiple" /\ issued = {} /\ ret'.ids # <<>>) => ret'.ids[1] = StartId]_vars

\* C6 witness: an insert that followed the truncate of a table in which ids
\* 1 and 2 had been assigned returned the starting id
C6_Witness ==
  /\ op = "insert"
  /\ ret.id = StartId
  /\ ever = {1, 2}
  /\ issued = {StartId}

\* C7 as stated: the ids update and remove return were all stored before the
\* call, and when no target is stored the result is empty and the table is
\* unchanged.
C7_ReturnedIdsWereStored ==
  [][(op' \in {"update", "remove"} /\ ~ret'.raised) =>
       /\ \A id \in Range(ret'.ids) : id \in DOMAIN rows
       /\ (arg'.has_ids /\ Range(arg'.doc_ids) \cap DOMAIN rows = {}) =>
            (ret'.ids = <<>> /\ rows' = rows)]_vars

\* the set of ids update and remove are to act on, by addressing mode
Targeted(a) ==
  IF a.has_ids THEN Range(a.doc_ids) \cap DOMAIN rows
  ELSE IF a.cond = 0 THEN DOMAIN rows
  ELSE Range(DocIds(search_docs(rows, Cond(a.cond)).docs))

\* C8: update and remove without condition and without id list act on every
\* stored record; with an id list they act on the listed ids that are stored,
\* whatever the condition is, and evaluate no condition; with a condition only
\* they act on the ids of search(condition), and raise without changing the
\* table when that search raises.
C8_AddressingModes ==
  [][op' \in {"update", "remove"} =>
       IF ~arg'.has_ids /\ arg'.cond # 0 /\ search_docs(rows, Cond(arg'.cond)).raised
       THEN ret'.raised /\ rows' = rows
       ELSE /\ ~ret'.raised
            /\ op' = "remove" => DOMAIN rows' = DOMAIN rows \ Targeted(arg')
            /\ op' = "update" =>
                 /\ Range(ret'.ids) = Targeted(arg')
                 /\ \A id \in DOMAIN rows :
                      IF id \in Targeted(arg')
                      THEN /\ "_updated_at" \in DOMAIN rows'[id]
                           /\ \A key \in DOMAIN arg'.fields \ {"_updated_at"} :
                                rows'[id][key] = arg'.fields[key]
                      ELSE rows'[id] = rows[id]]_vars

\* C8 witness: an update with the id list [1] and a condition that the record
\* with id 1 does not satisfy updated that record and left the other alone
C8_Witness ==
  /\ op = "update"
  /\ arg.has_ids
  /\ arg.doc_ids = <<1>>
  /\ arg.cond = 3
  /\ arg.fields = Fields1
  /\ ret.ids = <<1>>
  /\ DOMAIN rows = {1, 2}
  /\ "_updated_at" \notin DOMAIN rows[2]
  /\ matches_condition(RowDoc(rows, 2), Cond(3)) = "true"

\* C9: count() is len(all()); count(c) is the number of stored records the
\* evaluator accepts for c, the length of search(c); contains(c) is true
\* exactly when some stored record is accepted, when search(c) is not empty.
C9_CountConsistent ==
  /\ op = "count" =>
       IF arg.cond = 0 THEN ~ret.raised /\ ret.n = Len(all_docs(rows))
       ELSE IF RaisesOnSome(Cond(arg.cond)) THEN ret.raised
       ELSE /\ ~ret.raised
            /\ ret.n = Cardinality(Matching(Cond(arg.cond)))
            /\ ret.n = Len(search_docs(rows, Cond(arg.cond)).docs)
  /\ op = "contains" =>
       IF RaisesOnSome(Cond(arg.cond)) THEN ret.raised
       ELSE /\ ~ret.raised
            /\ ret.b <=> (Matching(Cond(arg.cond)) # {})
            /\ ret.b <=> (search_docs(rows, Cond(arg.cond)).docs # <<>>)

\* C9 witness: count() returned 1 on a table whose only record has id 2
C9_Witness ==
  /\ op = "count"
  /\ arg.cond = 0
  /\ ret.n = 1
  /\ DOMAIN rows = {2}

\* the smallest element of a non-empty set of ids
MinId(S) == CHOOSE x \in S : \A y \in S : x <= y

\* C10: get returns at most one record: with a doc_id, the record stored
\* under that id or None, whatever the condition; with a condition only, the
\* accepted record of smallest id, the first element of search(condition), or
\* None; with neither, the first record of all() or None.
C10_GetOne ==
  op = "get" =>
    LET cond == Cond(arg.cond) IN
    /\ Len(ret.docs) <= 1
    /\ arg.doc_id # <<>> =>
         /\ ~ret.raised
         /\ IF arg.doc_id[1] \in DOMAIN rows
            THEN ret.docs = <<SetKey(rows[arg.doc_id[1]], "doc_id", PyInt(arg.doc_id[1]))>>
            ELSE ret.docs = <<>>
    /\ (arg.doc_id = <<>> /\ arg.cond # 0) =>
         IF RaisesOnSome(cond) THEN ret.raised
         ELSE /\ ~ret.raised
              /\ ret.docs = First(search_docs(rows, cond).docs)
              /\ IF Matching(cond) = {} THEN ret.docs = <<>>
                 ELSE ret.docs = <<RowDoc(rows, MinId(Matching(cond)))>>
    /\ (arg.doc_id = <<>> /\ arg.cond = 0) =>
         /\ ~ret.raised
         /\ ret.docs = First(all_docs(rows))
         /\ IF rows = EmptyDoc THEN ret.docs = <<>>
            ELSE ret.docs = <<RowDoc(rows, MinId(DOMAIN rows))>>

\* C10 witness: get(cond, doc_id=0) returned None on a table with a record
\* that satisfies cond
C10_Witness ==
  /\ op = "get"
  /\ arg.doc_id = <<0>>
  /\ arg.cond = 3
  /\ ret.docs = <<>>
  /\ Matching(Cond(3)) # {}

(***************************************************************************)
(* The table when statements may fail: the operations that loop over        *)
(* several statements in one transaction, and the ones that show the rows.  *)
(***************************************************************************)
InitFaults ==
  /\ rows = EmptyDoc
  /\ seq = StartId
  /\ op = "init"
  /\ arg = NoArg
  /\ ret = NoRet
  /\ issued = {}
  /\ ever = {}
  /\ faults = TRUE
  /\ NoEval
  /\ NoThreads
  /\ OneTable

NextFaults ==
  \/ \E document \in Docs : insert(document)
  \/ \E documents \in DocLists : insert_multiple(documents)
  \/ update(Fields1, 0, FALSE, <<>>)
  \/ update(Fields1, 1, FALSE, <<>>)
  \/ \E doc_ids \in IdLists : update(Fields1, 0, TRUE, doc_ids)
  \/ all
  \/ truncate

SpecFaults == InitFaults /\ [][NextFaults]_vars

\* insert_multiple([]) returns [] and leaves relation and sequence alone
InsertMultipleEmpty ==
  (op' = "insert_multiple" /\ arg'.documents = <<>>) =>
    /\ ret' = NoRet
    /\ rows' = rows
    /\ seq' = seq

\* a call that succeeds returns one new id per document, in input order and
\* strictly increasing, and stores each document under its id
InsertMultipleSuccess ==
  (op' = "insert_multiple" /\ arg'.documents # <<>> /\ arg'.fail_at = 0) =>
    LET documents == arg'.documents
        ids == ret'.ids
    IN /\ ~ret'.raised
       /\ Len(ids) = Len(documents)
       /\ \A i, j \in DOMAIN ids : i < j => ids[i] < ids[j]
       /\ DOMAIN rows' = DOMAIN rows \cup Range(ids)
       /\ \A i \in DOMAIN ids :
            /\ ids[i] \notin DOMAIN rows
            /\ rows'[ids[i]] \in {doc_with_meta(documents[i], now) : now \in Stamps}
       /\ \A id \in DOMAIN rows : rows'[id] = rows[id]

\* C11 as stated: insert_multiple inserts one document after the other with
\* no atomicity across them: when the insert of the k-th document fails the
\* failure is raised and the k-1 documents before it are left stored; a call
\* that succeeds returns one id per document in input order, strictly
\* increasing; insert_multiple([]) returns [] without touching the table.
C11_PrefixLeftInserted ==
  [][/\ InsertMultipleEmpty
     /\ InsertMultipleSuccess
     /\ (op' = "insert_multiple" /\ arg'.fail_at > 0) =>
          /\ ret'.raised
          /\ Cardinality(DOMAIN rows') = Cardinality(DOMAIN rows) + arg'.fail_at - 1]_vars

\* C11 amended: insert_multiple is all or nothing: when the insert of the
\* k-th document fails the failure is raised and no document of the call is
\* stored, the k-1 before it included: the relation is what it was before
\* the call, only the sequence has moved on. A call that succeeds returns
\* one id per document in input order, strictly increasing;
\* insert_multiple([]) returns [] without touching the table.
C11_AllOrNothing ==
  [][/\ InsertMultipleEmpty
     /\ InsertMultipleSuccess
     /\ (op' = "insert_multiple" /\ arg'.fail_at > 0) =>
          /\ ret'.raised
          /\ rows' = rows
          /\ seq' >= seq + arg'.fail_at - 1]_vars

\* the second of two documents has failed: nothing is stored, and the
\* sequence has handed out the id of the first
C11_Witness ==
  /\ op = "insert_multiple"
  /\ arg.fail_at = 2
  /\ ret.raised
  /\ rows = EmptyDoc
  /\ seq > StartId

\* the ids update() works through for the arguments a, in the current state
TargetIds(a) == target_doc_ids(rows, Cond(a.cond), a.has_ids, a.doc_ids).ids

\* C12 as stated: when a statement fails while update processes the k-th
\* targeted record, the failure is raised and the changes made to the
\* records before it in the same call are not rolled back: later reads see
\* the new values of fields in them.
C12_EarlierChangesKept ==
  [][(op' = "update" /\ arg'.fail_at > 0) =>
       /\ ret'.raised
       /\ \A i \in 1..(arg'.fail_at - 1) :
            TargetIds(arg')[i] \in DOMAIN rows =>
              \A key \in DOMAIN arg'.fields :
                /\ key \in DOMAIN rows'[TargetIds(arg')[i]]
                /\ rows'[TargetIds(arg')[i]][key] = arg'.fields[key]]_vars

\* C12 amended: when a statement fails while update processes the k-th
\* targeted record, the failure is raised and the changes made to the
\* records before it in the same call are discarded with the transaction:
\* the relation is what it was before the call, and later reads see the old
\* values.
C12_FailedUpdateChangesNothing ==
  [][(op' = "update" /\ arg'.fail_at > 0) =>
       /\ ret'.raised
       /\ rows' = rows
       /\ all_docs(rows') = all_docs(rows)]_vars

\* the update of two stored records has failed on the second, and the first
\* holds the value it had, not the one of fields
C12_Witness ==
  /\ op = "update"
  /\ arg.fail_at = 2
  /\ ret.raised
  /\ Len(TargetIds(arg)) = 2
  /\ Range(TargetIds(arg)) = DOMAIN rows
  /\ rows[TargetIds(arg)[1]]["k"] # arg.fields["k"]
  /\ "_updated_at" \notin DOMAIN rows[TargetIds(arg)[1]]

(***************************************************************************)
(* The predicate evaluator on its own: _matches_condition applied to       *)
(* documents and conditions drawn from bounded sets, and ~ applied to a    *)
(* leaf that was evaluated.                                                *)
(***************************************************************************)
\* how many times ~ is applied to one leaf
MaxNot == 2

Paths == {<<"k">>, <<"k", "p">>}

\* {}, {k: None}, {k: 1}, {k: 'a'}, {k: '%A%'}, {k: [1]}, {k: {p: 1}}
EvalDocs ==
  {EmptyDoc, [k |-> PyNone], [k |-> PyInt(1)], [k |-> StrA], [k |-> PyStr(<<37, 65, 37>>)],
   [k |-> PyList(<<PyInt(1)>>)], [k |-> PyDict([p |-> PyInt(1)])]}

\* None, 1, 2, 'a', [1], [None]
Operands ==
  {PyNone, PyInt(1), PyInt(2), StrA, PyList(<<PyInt(1)>>), PyList(<<PyNone>>)}

\* 'a', 'A'
Patterns == {StrA, PyStr(<<65>>)}

\* the conditions the methods of Query build
Leaves ==
  UNION {{Query_eq(path, v), Query_ne(path, v), Query_lt(path, v), Query_le(path, v),
          Query_gt(path, v), Query_ge(path, v), Query_one_of(path, v), Query_any(path, v),
          Query_all(path, v)} : path \in Paths, v \in Operands}
  \cup {Query_matches(path, s) : path \in Paths, s \in Patterns}
  \cup {Query_exists(path) : path \in Paths}

\* conditions built through the constructors: an operator and a connective
\* that no method of Query or QueryCondition produces
Malformed ==
  {QueryCondition(<<"k">>, "~", PyInt(1)),
   CombinedCondition(Query_exists(<<"k">>), "XOR", Query_eq(<<"k">>, PyInt(1)))}

\* c & d and c | d
Trees ==
  {CombinedCondition(Query_exists(<<"k">>), connective, Query_eq(<<"k">>, PyInt(1))) :
     connective \in {"AND", "OR"}}

\* c & d and c | d where d compares a number with a str: on {k: 1} the
\* left side is decided, and the right side alone raises TypeError
RaisingTrees ==
  {CombinedCondition(Query_eq(<<"k">>, v), connective, Query_lt(<<"k">>, StrA)) :
     v \in {PyInt(1), PyInt(2)}, connective \in {"AND", "OR"}}

EvalConds == Leaves \cup Malformed \cup Trees \cup RaisingTrees

RECURSIVE InvertN(_, _)
InvertN(c, n) == IF n = 0 THEN c ELSE Invert(InvertN(c, n - 1))

\* not b, for a test that did not raise
Not(b) == CASE b = "true" -> "false" [] b = "false" -> "true" [] OTHER -> b

InitEval ==
  /\ rows = EmptyDoc
  /\ seq = StartId
  /\ op = "init"
  /\ arg = NoArg
  /\ ret = NoRet
  /\ issued = {}
  /\ ever = {}
  /\ faults = FALSE
  /\ mdoc \in EvalDocs
  /\ mcond \in EvalConds
  /\ mres = "none"
  /\ mprev = "none"
  /\ NoThreads
  /\ OneTable

\* self._matches_condition(mdoc, mcond)
evaluate ==
  /\ mres = "none"
  /\ mres' = matches_condition(mdoc, mcond)
  /\ UNCHANGED <<mdoc, mcond, mprev, faults, pvars, lvars, tvars>>

\* ~mcond, for a leaf: CombinedCondition has no __invert__
invert ==
  /\ mres # "none"
  /\ mcond.cls = "QueryCondition"
  /\ \E c \in Leaves \cup Malformed, n \in 0..(MaxNot - 1) :
       c.cls = "QueryCondition" /\ mcond = InvertN(c, n)
  /\ mcond' = Invert(mcond)
  /\ mprev' = mres
  /\ mres' = "none"
  /\ UNCHANGED <<mdoc, faults, pvars, lvars, tvars>>

NextEval == evaluate \/ invert

SpecEval == InitEval /\ [][NextEval]_vars

\* every segment of path is a key of the map it is looked up in
RECURSIVE PathDefined(_, _)
PathDefined(value, path) ==
  IF path = <<>> THEN TRUE
  ELSE /\ value.t = "dict"
       /\ Head(path) \in DOMAIN value.kv
       /\ PathDefined(value.kv[Head(path)], Tail(path))

\* what the convention gives for an undefined path
UndefinedResult(operator) == IF operator = "!=" THEN "true" ELSE "false"

NoNull(v) ==
  /\ v # PyNone
  /\ v.t \in {"list", "tuple"} => \A i \in DOMAIN v.items : v.items[i] # PyNone

Extracted == extract_value(PyDict(mdoc), mcond.path)

\* C14: lt, le, gt and ge applied to a stored value and an operand of
\* different types (a number against a string) give false and never raise.
C14_MismatchGivesFalse ==
  (/\ mres # "none"
   /\ mcond \in Leaves
   /\ mcond.operator \in {"<", "<=", ">", ">="}
   /\ Extracted # PyNone
   /\ mcond.value # PyNone
   /\ Extracted.t # mcond.value.t)
  => mres = "false"

\* C15: for a leaf c built with any operator and a document d,
\* evaluate(~c, d) is the negation of evaluate(c, d).
C15_NegationFlips ==
  (/\ mprev # "none"
   /\ mres # "none"
   /\ \E c \in Leaves : mcond = Invert(c))
  => mres = Not(mprev)

\* C16: evaluating a condition whose leaf operator is none of the known
\* ones, or whose connective is neither AND nor OR, raises an error.
C16_MalformedRaises ==
  (mres # "none" /\ mcond \in Malformed) => mres = "raise"

\* C17: Query().path.matches(s) is true exactly when the lower-cased s is
\* contained in the lower-cased string form of the value at the path, for a
\* value that is defined.
C17_MatchesIsContainment ==
  \A path \in Paths, s \in Patterns :
    (/\ mres # "none"
     /\ mcond = Query_matches(path, s)
     /\ PathDefined(PyDict(mdoc), path)
     /\ Extracted # PyNone)
    => mres = Bool(Contains(Lower(s.a), Lower(Str(Extracted))))

(***************************************************************************)
(* Threads and the connection pool.  Every thread works on a table of its  *)
(* own, so the lock of a table never makes one thread wait for another:    *)
(* the pool is all they share.  An operation is cut where it takes the     *)
(* lock and at the calls of _get_connection and _return_connection.        *)
(***************************************************************************)
\* maxconn of the pool: SimpleConnectionPool(1, 20, ...) scaled down
MaxConn == 2

\* all() borrows one connection; update() borrows one and, while it holds
\* it, calls search() or all(), which borrow a second one
OpKinds == {"all", "update"}

RECURSIVE SumHeld(_, _)
SumHeld(h, n) == IF n = 0 THEN 0 ELSE h[n] + SumHeld(h, n - 1)

\* connections of the pool that are borrowed
Borrowed == SumHeld(held, NThreads)

InitPool ==
  /\ rows = EmptyDoc
  /\ seq = StartId
  /\ op = "init"
  /\ arg = NoArg
  /\ ret = NoRet
  /\ issued = {}
  /\ ever = {}
  /\ faults = TRUE
  /\ NoEval
  /\ NoThreads
  /\ OneTable

\* thread t calls an operation of its table
begin(t, o) ==
  /\ pc[t] = "idle"
  /\ pc' = [pc EXCEPT ![t] = "lock"]
  /\ kind' = [kind EXCEPT ![t] = o]
  /\ hdl' = [hdl EXCEPT ![t] = t]
  /\ UNCHANGED <<held, lock, local, pending, faults, evars, lvars, tvars>>

\* with self._lock: of the operation, and of the all() that update() calls
\* through search() while it is inside its own
acquire(t) ==
  /\ pc[t] \in {"lock", "inner_lock"}
  /\ CanAcquire(lock[hdl[t]], t)
  /\ lock' = [lock EXCEPT ![hdl[t]] = Acquire(@, t)]
  /\ pc' = [pc EXCEPT ![t] = IF pc[t] = "lock" THEN "borrow" ELSE "inner_borrow"]
  /\ UNCHANGED <<kind, held, hdl, local, pending, faults, evars, lvars, tvars>>

\* faulty variant: an error leaves the operation past its finally
unwound_leak(n) == n

\* the connections a thread holds once an error has left its operation:
\* every try that was entered returns its connection in its finally
unwound(n) == 0

\* an error leaves the operation of thread t: the finally blocks return the
\* connections, the with blocks release the lock
raise_(t) ==
  /\ held' = [held EXCEPT ![t] = unwound(@)]
  /\ lock' = [lock EXCEPT ![hdl[t]] = Unlocked]
  /\ pc' = [pc EXCEPT ![t] = "raised"]

\* conn = self._get_connection(): getconn hands out a connection, or raises
\* PoolError at once when maxconn connections are borrowed; raised inside
\* update, the error passes the finally that returns the outer connection
get_connection(t) ==
  /\ pc[t] \in {"borrow", "inner_borrow"}
  /\ IF Borrowed < MaxConn
     THEN /\ held' = [held EXCEPT ![t] = @ + 1]
          /\ pc' = [pc EXCEPT ![t] = IF pc[t] = "inner_borrow" THEN "inner_return"
                                     ELSE IF kind[t] = "update" THEN "inner_lock"
                                     ELSE IF kind[t] = "update_ids" THEN "select"
                                     ELSE "statements"]
          /\ lock' = lock
     ELSE raise_(t)
  /\ UNCHANGED <<kind, hdl, local, pending, faults, evars, lvars, tvars>>

\* a statement of the operation, or of the all() inside it, raises
fail(t) ==
  /\ faults
  /\ pc[t] \in {"inner_return", "statements"}
  /\ raise_(t)
  /\ UNCHANGED <<kind, hdl, local, pending, faults, evars, lvars, tvars>>

\* finally: self._return_connection(conn), and the end of the with block:
\* of the inner call, or of the operation, which then returns to its caller
return_conn(t) ==
  /\ pc[t] \in {"inner_return", "statements"}
  /\ held' = [held EXCEPT ![t] = @ - 1]
  /\ lock' = [lock EXCEPT ![hdl[t]] = Release(@)]
  /\ pc' = [pc EXCEPT ![t] = IF pc[t] = "inner_return" THEN "statements" ELSE "idle"]
  /\ kind' = [kind EXCEPT ![t] = IF pc[t] = "inner_return" THEN @ ELSE "none"]
  /\ UNCHANGED <<hdl, local, pending, faults, evars, lvars, tvars>>

NextPool ==
  \/ \E t \in Threads, o \in OpKinds : begin(t, o)
  \/ \E t \in Threads : acquire(t)
  \/ \E t \in Threads : get_connection(t)
  \/ \E t \in Threads : fail(t)
  \/ \E t \in Threads : return_conn(t)

SpecPool == InitPool /\ [][NextPool]_vars

\* C18: when all connections of the pool are borrowed, a further borrow by
\* a table operation waits for a connection to be returned (or for a
\* configured timeout): it does not fail in the step that finds the pool
\* exhausted.
C18_ExhaustedBorrowWaits ==
  [][\A t \in Threads :
       (/\ Borrowed = MaxConn
        /\ pc[t] \in {"borrow", "inner_borrow"}
        /\ pc'[t] # pc[t])
       => pc'[t] # "raised"]_vars

(***************************************************************************)
(* The life of a TinyDB: construction, table(name), the operations of the  *)
(* table, close().                                                         *)
(***************************************************************************)
\* a connection descriptor as the constructor finds it: None, '', one that
\* opens connections, one that psycopg2 cannot parse, one whose server is
\* not reachable
Dsns == {"none", "empty", "good", "bad", "down"}

\* table names
Names == {TableName, "u"}

\* a or b, on descriptors: None and '' are falsy
Or(a, b) == IF a \in {"none", "empty"} THEN b ELSE a

\* faulty variant: the pool opens no connection until the first getconn
connect_lazy(dsn) == "pool"

\* pool.SimpleConnectionPool(1, 20, dsn): opens minconn connections, raises
\* when one cannot be opened
connect(dsn) == IF dsn = "good" THEN "pool" ELSE "raise"

InitLife ==
  /\ rows = EmptyDoc
  /\ seq = StartId
  /\ op = "init"
  /\ arg = NoArg
  /\ ret = NoRet
  /\ issued = {}
  /\ ever = {}
  /\ faults = FALSE
  /\ NoEval
  /\ NoThreads
  /\ pool = NoPool
  /\ tables = NoTables
  /\ dflt = "none"
  /\ cur = "none"

\* TinyDB(database_url=kwarg) with DATABASE_URL=environ in the environment
TinyDB_init(kwarg, environ) ==
  /\ pool.state = "none"
  /\ op' = "TinyDB"
  /\ arg' = [NoArg EXCEPT !.database_url = kwarg, !.DATABASE_URL = environ]
  /\ LET database_url == Or(kwarg, environ)
     IN IF database_url \in {"none", "empty"} \/ connect(database_url) = "raise"
        THEN /\ ret' = Raised
             /\ pool' = NoPool
        ELSE /\ ret' = NoRet
             /\ pool' = OpenPool(database_url)
  /\ tables' = NoTables
  /\ dflt' = "none"
  /\ cur' = "none"
  /\ UNCHANGED <<rows, seq, issued, ever, faults, evars, pvars>>

\* db.table(name): the table of the registry, or a new PostgreSQLTable,
\* whose constructor runs _ensure_table() before it is registered
table(name) ==
  /\ pool.state # "none"
  /\ op' = "table"
  /\ arg' = [NoArg EXCEPT !.name = name]
  /\ IF name \in DOMAIN tables
     THEN /\ ret' = NoRet
          /\ tables' = tables
          /\ cur' = name
     ELSE IF getconn(pool) = "PoolError"
     THEN /\ ret' = Raised
          /\ tables' = tables
          /\ cur' = cur
     ELSE \* CREATE TABLE IF NOT EXISTS: rows and sequence of a relation
          \* that exists are left alone
          /\ ret' = NoRet
          /\ tables' = Register(tables, name, 0)
          /\ cur' = name
  /\ UNCHANGED <<rows, seq, issued, ever, faults, evars, pvars, pool, dflt>>

\* db.close(): closeall() closes every connection of the pool and marks it
\* closed; on a pool that is closed it raises PoolError
close ==
  /\ pool.state # "none"
  /\ op' = "close"
  /\ arg' = NoArg
  /\ IF pool.state = "closed"
     THEN /\ ret' = Raised
          /\ pool' = pool
     ELSE /\ ret' = NoRet
          /\ pool' = [pool EXCEPT !.state = "closed", !.conns = 0]
  /\ UNCHANGED <<rows, seq, issued, ever, faults, evars, pvars, tables, dflt, cur>>

NextLife ==
  \/ \E kwarg \in Dsns \ {"down"}, environ \in Dsns \ {"empty"} : TinyDB_init(kwarg, environ)
  \/ \E name \in Names : table(name)
  \/ close
  \/ insert(Doc2)
  \/ \E documents \in DocLists : insert_multiple(documents)
  \/ all
  \/ \E doc_id \in {<<>>, <<1>>} : get(0, doc_id)
  \/ search(1)
  \/ update(Fields1, 0, FALSE, <<>>)
  \/ \E doc_ids \in {<<>>, <<1>>} : remove(0, TRUE, doc_ids)
  \/ truncate
  \/ \E ci \in {0, 1} : count(ci)
  \/ contains(1)

SpecLife == InitLife /\ [][NextLife]_vars

\* the descriptor a constructor call ends up with
Descriptor(a) == Or(a.database_url, a.DATABASE_URL)

\* C19: construction fails fast: with no descriptor, with one that is not
\* valid, or when the pool cannot open its minimum of connections, TinyDB()
\* raises and leaves no pool, no registry and no table behind; a TinyDB that
\* exists has a pool that opened its connections on a working descriptor,
\* so the failure is never left for the first operation.
C19_FailsFast ==
  [][/\ op' = "TinyDB" =>
          IF Descriptor(arg') = "good"
          THEN /\ ~ret'.raised
               /\ pool' = OpenPool("good")
               /\ tables' = NoTables
          ELSE /\ ret'.raised
               /\ pool' = NoPool
               /\ tables' = NoTables
     /\ pool'.state = "none" => tables' = NoTables
     /\ pool'.state = "open" => pool'.dsn = "good" /\ pool'.conns >= minconn]_vars

\* the constructor was given a descriptor that cannot be parsed and raised
C19_Witness ==
  /\ op = "TinyDB"
  /\ arg.database_url = "bad"
  /\ ret.raised
  /\ pool = NoPool
  /\ tables = NoTables

\* a call made on a closed TinyDB fails and leaves everything as it was
FailsUnchanged ==
  /\ ret'.raised
  /\ rows' = rows
  /\ seq' = seq
  /\ tables' = tables
  /\ pool' = pool

\* C20 as stated: once close() has returned, every later operation of the
\* table or of the TinyDB (insert, insert_multiple, all, get, search,
\* update, remove, count, contains, truncate, and table(name) for a new
\* name) fails with an error and changes no stored data; all connections
\* of the pool are closed.
C20_NothingValidAfterClose ==
  [][/\ (/\ pool.state = "closed"
         /\ op' = "table" => arg'.name \notin DOMAIN tables)
        => FailsUnchanged
     /\ pool'.state = "closed" => pool'.conns = 0]_vars

\* C20 amended: once close() has returned, every later operation of the
\* table or of the TinyDB that asks the pool for a connection (insert,
\* insert_multiple of a non-empty list, all, get, search, update, remove,
\* count, contains, truncate, and table(name) for a new name) fails with an
\* error, insert_multiple([]) still returns [], and none of them changes
\* stored data; all connections of the pool are closed.
C20_ClosedPoolFailsOperations ==
  [][/\ (/\ pool.state = "closed"
         /\ op' = "table" => arg'.name \notin DOMAIN tables)
        => IF op' = "insert_multiple" /\ arg'.documents = <<>>
           THEN /\ ret' = NoRet
                /\ rows' = rows
                /\ seq' = seq
                /\ tables' = tables
                /\ pool' = pool
           ELSE FailsUnchanged
     /\ pool'.state = "closed" => pool'.conns = 0]_vars

\* an insert made after close() has raised, and the document stored before
\* close() is what the relation holds
C20_Witness ==
  /\ pool.state = "closed"
  /\ op = "insert"
  /\ ret.raised
  /\ DOMAIN rows = {1}

(***************************************************************************)
(* The registry of a TinyDB: table(name), default_table(), and the         *)
(* operations of whichever table the caller got last.                      *)
(***************************************************************************)
\* names given to table(): the table's own, one that differs from it in
\* case only, and the name of the implicit table
RegistryNames == {TableName, "T", "_default"}

\* db.default_table(): the table it holds, or table('_default'), which it
\* keeps; the pass-through methods call their operation on what it returns
default_table ==
  /\ pool.state # "none"
  /\ op' = "default_table"
  /\ arg' = NoArg
  /\ IF dflt # "none"
     THEN /\ ret' = NoRet
          /\ tables' = tables
          /\ dflt' = dflt
          /\ cur' = dflt
     ELSE IF "_default" \notin DOMAIN tables /\ getconn(pool) = "PoolError"
     THEN /\ ret' = Raised
          /\ tables' = tables
          /\ dflt' = dflt
          /\ cur' = cur
     ELSE /\ ret' = NoRet
          /\ tables' = IF "_default" \in DOMAIN tables THEN tables
                        ELSE Register(tables, "_default", 0)
          /\ dflt' = "_default"
          /\ cur' = "_default"
  /\ UNCHANGED <<rows, seq, issued, ever, faults, evars, pvars, pool>>

NextRegistry ==
  \/ TinyDB_init("good", "none")
  \/ \E name \in RegistryNames : table(name)
  \/ default_table
  \/ close
  \/ \E document \in Docs : insert(document)
  \/ all
  \/ update(Fields1, 0, FALSE, <<>>)
  \/ remove(0, FALSE, <<>>)
  \/ truncate

SpecRegistry == InitLife /\ [][NextRegistry]_vars

\* the operations of a table
TableOps == {"insert", "insert_multiple", "all", "get", "search", "update",
             "remove", "truncate", "count", "contains"}

\* C21: table(name) makes a table on its first call only and hands out the
\* same table afterwards; the bootstrap it runs leaves the records and the
\* id sequence as they were; only table() and default_table() add to the
\* registry; default_table() hands out the table named '_default'; and an
\* operation called on a table of another name changes no record of this
\* table.
C21_TablesAreIsolated ==
  [][/\ (op' = "table" /\ ~ret'.raised)
        => /\ cur' = arg'.name
           /\ tables' = (IF arg'.name \in DOMAIN tables THEN tables
                          ELSE Register(tables, arg'.name, 0))
           /\ rows' = rows
           /\ seq' = seq
     /\ (op' = "default_table" /\ ~ret'.raised)
        => /\ cur' = "_default"
           /\ "_default" \in DOMAIN tables'
           /\ DOMAIN tables' \subseteq DOMAIN tables \cup {"_default"}
           /\ rows' = rows
           /\ seq' = seq
     /\ op' \in TableOps
        => /\ tables' = tables
           /\ cur # TableName => rows' = rows]_vars

(***************************************************************************)
(* What the caller shares with the table: the documents it passes in and   *)
(* the documents it gets back.                                             *)
(***************************************************************************)
\* faulty variant: the dict handed out is the one the table reads from
stored_data_shared(data, doc) == doc

\* the data of a row after the caller changed doc, the dict that all() built
\* from it: dict(row['data']) is a new dict, made from a row that the cursor
\* decoded from the connection, and the relation is in the database
stored_data(data, doc) == data

\* what the caller sets in a document it got back
Mutations == {<<"k", PyInt(7)>>, <<"z", PyNone>>}

\* the caller sets a key of the i-th document of the list it got back
mutate(i, key, value) ==
  /\ UNCHANGED env
  /\ op \in {"all", "get", "search", "mutate"}
  /\ i \in 1..Len(ret.docs)
  /\ IF key \in DOMAIN ret.docs[i] THEN ret.docs[i][key] # value ELSE TRUE
  /\ op' = "mutate"
  /\ arg' = NoArg
  /\ ret' = [ret EXCEPT !.docs[i] = SetKey(@, key, value)]
  /\ LET id == ret.docs[i]["doc_id"].a[1]
     IN rows' = [rows EXCEPT ![id] = stored_data(@, ret'.docs[i])]
  /\ UNCHANGED <<seq, issued, ever>>

NextCopies ==
  \/ \E document \in Docs : insert(document)
  \/ \E documents \in DocLists : insert_multiple(documents)
  \/ all
  \/ \E doc_id \in {<<>>, <<1>>} : get(0, doc_id)
  \/ search(1)
  \/ \E i \in 1..MaxId, m \in Mutations : mutate(i, m[1], m[2])

SpecCopies == InitFaults /\ [][NextCopies]_vars

\* C22: what the caller and the table hold are independent copies: setting
\* a key of a document that all(), get() or search() returned changes no
\* stored record, and a read made afterwards returns the records as they
\* are stored; insert() and insert_multiple() leave the documents they were
\* given as they were, whether they succeed or fail.
C22_IndependentCopies ==
  [][/\ op' = "mutate" => rows' = rows
     /\ (op = "mutate" /\ op' = "all") => ret'.docs = all_docs(rows)
     /\ op' = "insert" => arg'.after = <<arg'.document>>
     /\ op' = "insert_multiple" => arg'.after = arg'.documents]_vars

\* the caller changed a document it got back, which now differs from the
\* stored record
C22_Witness ==
  /\ op = "mutate"
  /\ \E i \in 1..Len(ret.docs) :
       /\ "z" \in DOMAIN ret.docs[i]
       /\ "z" \notin DOMAIN rows[ret.docs[i]["doc_id"].a[1]]

\* C26: a composite is evaluated left to right and stops as soon as the left
\* side decides it: left AND right with a false left side is false, left OR
\* right with a true left side is true, whatever evaluating the right side
\* alone would do, an error included.
C26_ShortCircuits ==
  (mres # "none" /\ mcond.cls = "CombinedCondition")
  => LET left_match == matches_condition(mdoc, mcond.left)
     IN /\ (mcond.operator = "AND" /\ left_match = "false") => mres = "false"
        /\ (mcond.operator = "OR" /\ left_match = "true") => mres = "true"

\* C30: exists() tells a field that is there from one that is missing: it
\* is true exactly when every segment of the path is a key, also when the
\* value found is null; and == None is true only for a field that is there
\* and holds null.
C30_ExistsSeesNullFields ==
  (mres # "none" /\ mcond.cls = "QueryCondition")
  => LET present == PathDefined(PyDict(mdoc), mcond.path)
     IN /\ mcond.operator = "EXISTS" => mres = Bool(present)
        /\ (mcond.operator = "=" /\ mcond.value = PyNone)
           => mres = Bool(present /\ Extracted = PyNone)

\* the connections an operation has borrowed and not returned at each of
\* its points
Holding(at) ==
  CASE at \in {"inner_lock", "inner_borrow", "statements"} -> 1
    [] at = "inner_return" -> 2
    [] OTHER -> 0

\* C27: connections are conserved: at every point of an operation the
\* thread holds exactly the connections it borrowed and has not yet
\* returned, each is returned once, and an operation that has returned or
\* raised, at whatever point the error arose, holds none.
C27_ConnectionsConserved ==
  /\ \A t \in Threads : held[t] = Holding(pc[t])
  /\ Borrowed <= MaxConn

\* an update raised while it held connections, another operation returned,
\* and every connection is back in the pool
C27_Witness ==
  /\ \E t \in Threads : pc[t] = "raised" /\ kind[t] = "update"
  /\ \E t \in Threads : pc[t] = "idle" /\ hdl[t] = t
  /\ Borrowed = 0

\* C28: an operation of a table holds at most one connection of the pool
\* at any time, update() with a condition or over all records included.
C28_OneConnectionPerOperation == \A t \in Threads : held[t] <= 1

\* how far a point of an operation is from its end
Rank(at) ==
  CASE at = "lock" -> 7
    [] at = "borrow" -> 6
    [] at = "inner_lock" -> 5
    [] at = "inner_borrow" -> 4
    [] at = "inner_return" -> 3
    [] at = "statements" -> 2
    [] OTHER -> 0

\* C29: an operation never waits for a lock its own thread holds: a thread
\* that comes to take the lock of its table, for the operation or for the
\* all() inside update(), can take it; every step brings the operation
\* nearer to its end; and when the operation has returned or raised, the
\* thread owns the lock no more.
C29_NoSelfDeadlock ==
  [][\A t \in Threads :
       /\ pc'[t] \in {"lock", "inner_lock"} => CanAcquire(lock'[hdl'[t]], t)
       /\ pc'[t] # pc[t] => (pc[t] = "idle" \/ Rank(pc'[t]) < Rank(pc[t]))
       /\ (pc'[t] \in {"idle", "raised"} /\ hdl'[t] # 0)
          => lock'[hdl'[t]] = Unlocked]_vars

\* a thread inside update() has taken the lock of its table a second time
C29_Witness ==
  \E t \in Threads : pc[t] = "inner_borrow" /\ lock[hdl[t]] = [owner |-> t, count |-> 2]

(***************************************************************************)
(* Two threads that update different keys of one record, each with         *)
(* table(name).update(fields, doc_ids=[doc_id]).  The operation is cut at  *)
(* the lock, at the pool and at its statements; table(name) is cut between *)
(* its test of the registry, the assignment and the return.                *)
(***************************************************************************)
Writers == {1, 2}

\* the record both writers update, as an insert stored it
WriterDoc == doc_with_meta([k |-> PyInt(1)], Stamp)

\* {'a': 1} for writer 1, {'b': 2} for writer 2
WriterKey(w) == IF w = 1 THEN "a" ELSE "b"
WriterFields(w) == [x \in {WriterKey(w)} |-> PyInt(w)]

InitWriters ==
  /\ rows = InsertRow(EmptyDoc, StartId, WriterDoc)
  /\ seq = nextval(StartId)
  /\ op = "init"
  /\ arg = NoArg
  /\ ret = NoRet
  /\ issued = {StartId}
  /\ ever = {StartId}
  /\ faults = FALSE
  /\ NoEval
  /\ NoThreads
  /\ pool = OpenPool("good")
  /\ tables = NoTables
  /\ dflt = "none"
  /\ cur = "none"

\* writer w makes its call, through the TinyDB the threads share
begin_writer(w) ==
  /\ pc[w] = "idle"
  /\ hdl[w] = 0
  /\ kind' = [kind EXCEPT ![w] = "update_ids"]
  /\ pc' = [pc EXCEPT ![w] = "table_check"]
  /\ UNCHANGED <<held, hdl, lock, local, pending, faults, evars, lvars, tvars>>

\* table(name): if name not in self.tables
table_check(w) ==
  /\ pc[w] = "table_check"
  /\ pc' = [pc EXCEPT ![w] = IF TableName \in DOMAIN tables THEN "table_return"
                                ELSE "table_make"]
  /\ UNCHANGED <<kind, held, hdl, lock, local, pending, faults, evars, lvars, tvars>>

\* table(name): self.tables[name] = PostgreSQLTable(self.connection_pool, name)
table_make(w) ==
  /\ pc[w] = "table_make"
  /\ tables' = Register(tables, TableName, w)
  /\ pc' = [pc EXCEPT ![w] = "table_return"]
  /\ UNCHANGED <<kind, held, hdl, lock, local, pending, faults, evars, pool, dflt, cur, tvars>>

\* table(name): return self.tables[name]
table_return(w) ==
  /\ pc[w] = "table_return"
  /\ hdl' = [hdl EXCEPT ![w] = tables[TableName]]
  /\ pc' = [pc EXCEPT ![w] = "lock"]
  /\ UNCHANGED <<kind, held, lock, local, pending, faults, evars, lvars, tvars>>

\* a transaction of another connection has written the row and not committed
RowLocked(w) == \E v \in Threads \ {w} : pending[v] # EmptyDoc

\* SELECT data FROM ... WHERE doc_id = %s, under READ COMMITTED: the row as
\* it was last committed
select(w) ==
  /\ pc[w] = "select"
  /\ local' = [local EXCEPT ![w] = rows[StartId]]
  /\ pc' = [pc EXCEPT ![w] = "write"]
  /\ UNCHANGED <<kind, held, hdl, lock, pending, faults, evars, lvars, tvars>>

\* faulty variant: the keys are merged into the row as it is now
written_merged(fetched, current, fields, now) ==
  Json(SetKey(DictUpdate(current, fields), "_updated_at", now))

\* the data the UPDATE statement sets: the dict made from the row that was
\* fetched, with the fields and the marker
written(fetched, current, fields, now) ==
  Json(SetKey(DictUpdate(fetched, fields), "_updated_at", now))

\* UPDATE ... SET data = %s WHERE doc_id = %s: waits while the row is locked
\* by a transaction that has not committed
write(w) ==
  /\ pc[w] = "write"
  /\ ~RowLocked(w)
  /\ \E now \in Stamps :
       pending' = [pending EXCEPT ![w] = written(local[w], rows[StartId], WriterFields(w), now)]
  /\ pc' = [pc EXCEPT ![w] = "commit"]
  /\ UNCHANGED <<kind, held, hdl, lock, local, faults, evars, lvars, tvars>>

\* conn.commit(); what is left of the operation is the finally
commit(w) ==
  /\ pc[w] = "commit"
  /\ rows' = [rows EXCEPT ![StartId] = pending[w]]
  /\ pending' = [pending EXCEPT ![w] = EmptyDoc]
  /\ pc' = [pc EXCEPT ![w] = "statements"]
  /\ UNCHANGED <<kind, held, hdl, lock, local, faults, evars, lvars,
                 seq, op, arg, ret, issued, ever>>

NextWriters ==
  \/ \E w \in Writers : begin_writer(w)
  \/ \E w \in Writers : table_check(w)
  \/ \E w \in Writers : table_make(w)
  \/ \E w \in Writers : table_return(w)
  \/ \E w \in Writers : acquire(w)
  \/ \E w \in Writers : get_connection(w)
  \/ \E w \in Writers : select(w)
  \/ \E w \in Writers : write(w)
  \/ \E w \in Writers : commit(w)
  \/ \E w \in Writers : return_conn(w)

SpecWriters == InitWriters /\ [][NextWriters]_vars

\* thread w is inside the with self._lock block of its update()
InLock(w) == pc[w] \in {"borrow", "select", "write", "commit", "statements"}

\* the update() of writer w has returned [doc_id]: it found the row
Returned(w) == pc[w] = "idle" /\ hdl[w] # 0 /\ local[w] # EmptyDoc

\* the stored record holds what writer w set
Kept(w) ==
  /\ WriterKey(w) \in DOMAIN rows[StartId]
  /\ rows[StartId][WriterKey(w)] = PyInt(w)

\* C23: threads that call into the same PostgreSQLTable exclude each other:
\* no two of them are inside an operation of it at once, so each update(),
\* from its SELECT to its commit, is atomic for the others; and when two
\* updates of different keys of one record made through one table have both
\* returned, the record holds both changes.
C23_SameTableExcludes ==
  /\ \A w \in Writers :
       \A v \in Writers \ {w} : (hdl[w] = hdl[v] /\ InLock(w)) => ~InLock(v)
  /\ (hdl[1] = hdl[2] /\ Returned(1) /\ Returned(2)) => (Kept(1) /\ Kept(2))

\* both writers went through one table, both returned, both changes are there
C23_Witness ==
  /\ hdl[1] = hdl[2]
  /\ Returned(1) /\ Returned(2)
  /\ Kept(1) /\ Kept(2)

\* C24: writers that do not share the lock of a table can lose an update:
\* a writer that commits a row which was committed by another since it
\* fetched it holds a different table than that writer, and stores the row
\* as it fetched it with its own keys set, so that the key the other writer
\* set is missing afterwards, though both calls return the id.
C24_StaleWriteLosesUpdate ==
  [][\A w \in Writers :
       (pc[w] = "commit" /\ pc'[w] # "commit" /\ local[w] # rows[StartId])
       => \A v \in Writers \ {w} :
            /\ hdl[w] # hdl[v]
            /\ Kept(v)
            /\ WriterKey(v) \notin DOMAIN rows'[StartId]
            /\ WriterKey(w) \in DOMAIN rows'[StartId]]_vars

\* both updates returned the id, and the key writer 1 set is missing
C24_Witness ==
  /\ hdl[1] # hdl[2]
  /\ Returned(1) /\ Returned(2)
  /\ Kept(2)
  /\ WriterKey(1) \notin DOMAIN rows[StartId]

\* C25: threads that call table(name) at the same time for a name that is
\* not registered all receive the same PostgreSQLTable.
C25_OneTablePerName ==
  \A w \in Writers, v \in Writers : (hdl[w] # 0 /\ hdl[v] # 0) => hdl[w] = hdl[v]
====
